---- MODULE Spec2Model ----
(***************************************************************************)
(* The per-connection request handler of the two servers of the            *)
(* repository, serverfork.cpp and serverthread.cpp: process_client_request *)
(* reads a request from the socket, validates it and writes one response.  *)
(* A byte is a one-character string, a C string is a sequence of bytes.    *)
(***************************************************************************)
EXTENDS Integers, Sequences, FiniteSets, TLC

VARIABLES variant, wire, total_received, attempts, pc, http_method, file_path,
          http_version, requested_file, content_size, response_content,
          read_size, total_sent, smashed, bytes_received, recv_ask,
          recv_calls, log, main_pc, client_fd, accepted, descriptor,
          child_descriptor, cell, unit, handles, stalled, closed_by,
          freed_by, child_server_fd

\* the state of one run of process_client_request
hvars == <<variant, wire, total_received, attempts, pc, http_method, file_path,
           http_version, requested_file, content_size, response_content,
           read_size, total_sent, smashed, bytes_received, recv_ask,
           recv_calls, log>>

\* the state of main and of the units it has started
svars == <<main_pc, client_fd, accepted, descriptor, child_descriptor, cell,
           unit, handles, stalled, closed_by, freed_by, child_server_fd>>

vars == <<hvars, svars>>

(***************************************************************************)
(* Bounds of the model.                                                    *)
(***************************************************************************)
\* a recv returns at most MaxChunk bytes, or everything that is available
MaxChunk == 1
\* length of the longest request the client sends without a terminator
FloodLen == 8200
\* connections the listener accepts
MaxConns == 3

Conns == 1..MaxConns

(***************************************************************************)
(* Program constants.                                                      *)
(***************************************************************************)
THREAD_MAX_BUFFER_SIZE == 8192
FORK_MAX_BUFFER_SIZE == 1024
MAX_PATH_DEPTH == 2
MAX_RECV_ATTEMPTS == 100
METHOD_CAP == 10
VERSION_CAP == 10
THREAD_PATH_CAP == 256
FORK_PATH_CAP == 100

MAX_BUFFER_SIZE(v) == IF v = "thread" THEN THREAD_MAX_BUFFER_SIZE ELSE FORK_MAX_BUFFER_SIZE

(***************************************************************************)
(* C strings.                                                              *)
(***************************************************************************)
NUL == "NUL"
Rep(c, n) == [i \in 1..n |-> c]

Min(a, b) == IF a < b THEN a ELSE b

\* the element of a one-element set; {e(x) : x \in {v}} computes v once
Only(S) == CHOOSE x \in S : TRUE

\* strlen(str): the number of bytes before the first NUL
StrLen(str) ==
    Only({IF \E i \in 1..Len(s) : s[i] = NUL
          THEN (CHOOSE i \in 1..Len(s) : s[i] = NUL /\ \A j \in 1..(i - 1) : s[j] # NUL) - 1
          ELSE Len(s) : s \in {str}})

\* the C string a zero-filled buffer holds after s was stored in it
CStr(s) == SubSeq(s, 1, StrLen(s))

\* strstr(str, pat) != NULL, str and pat C strings
Strstr(str, pat) ==
    \E s \in {str} : \E i \in 1..(Len(s) - Len(pat) + 1) :
        \A j \in 1..Len(pat) : s[i + j - 1] = pat[j]

\* isspace in the C locale
IsSpace(c) == c \in {" ", "\t", "\n", "\r", "\f"}

\* index of the first non-space byte of str at or after from, Len(str)+1 if none
SkipWs(str, from) ==
    Only({IF \E j \in i..Len(s) : ~IsSpace(s[j])
          THEN CHOOSE j \in i..Len(s) : ~IsSpace(s[j]) /\ \A k \in i..(j - 1) : IsSpace(s[k])
          ELSE Len(s) + 1 : s \in {str}, i \in {from}})

\* %ws: index after the token starting at from, at most w bytes (w < 0: no width)
TokEnd(str, from, w) ==
    Only({LET lim == IF w < 0 THEN Len(s) ELSE Min(Len(s), i + w - 1)
          IN  IF \E j \in i..lim : IsSpace(s[j])
              THEN CHOOSE j \in i..lim : IsSpace(s[j]) /\ \A k \in i..(j - 1) : ~IsSpace(s[k])
              ELSE lim + 1 : s \in {str}, i \in {from}})

\* one %ws conversion from index from: where the token starts and ends
Convert(str, from, w) ==
    Only({[a |-> a, e |-> TokEnd(str, a, w)] : a \in {SkipWs(str, from)}})

\* sscanf(str, "%s %s %s") with the field widths w1, w2, w3
Sscanf(str, w1, w2, w3) ==
    Only({Only({Only({Only({
        [n |-> IF t1.e = t1.a THEN -1 ELSE IF t2.e = t2.a THEN 1
               ELSE IF t3.e = t3.a THEN 2 ELSE 3,
         method |-> SubSeq(s, t1.a, t1.e - 1),
         path |-> SubSeq(s, t2.a, t2.e - 1),
         version |-> SubSeq(s, t3.a, t3.e - 1)]
        : t3 \in {Convert(s, t2.e, w3)}})
        : t2 \in {Convert(s, t1.e, w2)}})
        : t1 \in {Convert(s, 1, w1)}})
        : s \in {str}})

(***************************************************************************)
(* String literals of the source.                                          *)
(***************************************************************************)
CRLF == <<"\r", "\n">>
CRLFCRLF == <<"\r", "\n", "\r", "\n">>
SP == <<" ">>
GET == <<"G", "E", "T">>
HEAD == <<"H", "E", "A", "D">>
HTTP11 == <<"H", "T", "T", "P", "/", "1", ".", "1">>
HTTP10 == <<"H", "T", "T", "P", "/", "1", ".", "0">>
CRLF_HOST == <<"\r", "\n", "H", "o", "s", "t", ":">>
LF_HOST == <<"\n", "H", "o", "s", "t", ":">>
DOTDOT == <<".", ".">>
INDEX_HTML == <<"i", "n", "d", "e", "x", ".", "h", "t", "m", "l">>

HTML == <<".", "h", "t", "m", "l">>
HTM == <<".", "h", "t", "m">>
TXT == <<".", "t", "x", "t">>
JPG == <<".", "j", "p", "g">>
JPEG == <<".", "j", "p", "e", "g">>
PNG == <<".", "p", "n", "g">>
CSS == <<".", "c", "s", "s">>
JS == <<".", "j", "s">>
JSON == <<".", "j", "s", "o", "n">>
PDF == <<".", "p", "d", "f">>

incomplete == [status |-> 400, text |-> "HTTP/1.1 400 Bad Request\r\n\r\nIncomplete HTTP request.\r\n"]
badline == [status |-> 400, text |-> "HTTP/1.1 400 Bad Request\r\n\r\nMalformed request line.\r\n"]
bad_method == [status |-> 405, text |-> "HTTP/1.1 405 Method Not Allowed\r\n\r\nSupported methods: GET, HEAD.\r\n"]
bad_version == [status |-> 505, text |-> "HTTP/1.1 505 HTTP Version Not Supported\r\n\r\n"]
missing_host == [status |-> 400, text |-> "HTTP/1.1 400 Bad Request\r\n\r\nHost header is required.\r\n"]
bad_path == [status |-> 403, text |-> "HTTP/1.1 403 Forbidden\r\n\r\nInvalid path.\r\n"]
thread_not_found == [status |-> 404, text |-> "HTTP/1.1 404 Not Found\r\n\r\nThe requested file was not found.\r\n"]
fork_not_found == [status |-> 404, text |-> "HTTP/1.1 404 Not Found\r\n\r\nThe requested file does not exist.\r\n"]
internal_error == [status |-> 500, text |-> "HTTP/1.1 500 Internal Server Error\r\n\r\nMemory allocation failed.\r\n"]
no_response == [status |-> 0, text |-> ""]

not_found(v) == IF v = "thread" THEN thread_not_found ELSE fork_not_found

(***************************************************************************)
(* The files of the working directory and the requests of the client.     *)
(***************************************************************************)
\* size of the largest file
MaxFileLen == 3

Content(n) == [i \in 1..n |-> ToString(i)]

A_TXT == <<"a", ".", "t", "x", "t">>
EMPTY_FILE == <<"e">>
SECRET == <<".", ".", "/", "s">>
DEEP == <<"a", "/", "b", "/", "c">>
D_JSON == <<"d", ".", "j", "s", "o", "n">>

FileNames == {INDEX_HTML, A_TXT, EMPTY_FILE, SECRET, DEEP, D_JSON}

\* the bytes of the file called name
FileData(name) ==
    IF name = A_TXT THEN Content(MaxFileLen)
    ELSE IF name = INDEX_HTML THEN Content(2)
    ELSE IF name = EMPTY_FILE THEN <<>>
    ELSE Content(1)

POST == <<"P", "O", "S", "T">>
LOWER_GET == <<"g", "e", "t">>
LONG_METHOD == GET \o Rep("X", METHOD_CAP - 3)
HTTP20 == <<"H", "T", "T", "P", "/", "2", ".", "0">>
HOST_LINE == <<"H", "o", "s", "t", ":", " ", "x">> \o CRLF

Methods == {GET, HEAD}
Targets == {<<"/">>, <<"/">> \o A_TXT, <<"/", "n", "o">>, <<"/">> \o SECRET,
            <<"/">> \o DEEP, <<"/">> \o EMPTY_FILE, <<"/">> \o INDEX_HTML}
\* version and header lines
Headers == {<<HTTP11, <<>> >>, <<HTTP11, HOST_LINE>>, <<HTTP10, <<>> >>}

RequestLine(m, t, v) == m \o SP \o t \o SP \o v \o CRLF

\* a client that sends head, then fill bytes 'a', then tail; the bytes of a
\* burst client arrive together, those of the others in any segments
W(head, fill, tail) == [head |-> head, fill |-> fill, tail |-> tail, burst |-> FALSE]
Burst(w) == [w EXCEPT !.burst = TRUE]

\* the bytes the client w sends, in order
Stream(w) == w.head \o Rep("a", w.fill) \o w.tail

\* what a client may send on one connection
Wires ==
    {W(RequestLine(m, t, h[1]) \o h[2] \o CRLF, 0, <<>>) :
        m \in Methods, t \in Targets, h \in Headers}
    \cup {W(<<>>, 0, <<>>),
          W(RequestLine(GET, <<"/">>, HTTP11), 0, <<>>),
          W(POST \o CRLFCRLF, 0, <<>>),
          W(RequestLine(POST, <<"/">>, HTTP11) \o HOST_LINE \o CRLF, 0, <<>>),
          W(RequestLine(POST, <<"/">> \o SECRET, HTTP20) \o CRLF, 0, <<>>),
          W(RequestLine(GET, <<"/", "n", "o">>, HTTP20) \o CRLF, 0, <<>>),
          W(RequestLine(HEAD, <<"/">> \o DEEP, HTTP20) \o HOST_LINE \o CRLF, 0, <<>>),
          W(RequestLine(GET, A_TXT, HTTP10) \o CRLF, 0, <<>>),
          W(RequestLine(HEAD, <<"/">> \o D_JSON, HTTP10) \o CRLF, 0, <<>>),
          W(GET \o SP \o <<"/">> \o CRLF \o HOST_LINE \o CRLF, 0, <<>>),
          W(RequestLine(GET, <<"/">>, HTTP10 \o SP \o <<"z">>) \o CRLF, 0, <<>>),
          W(RequestLine(GET, <<"/">>, HTTP11) \o CRLF \o CRLF \o HOST_LINE, 0, <<>>),
          W(GET \o SP \o <<"/">> \o CRLFCRLF \o HTTP10, 0, <<>>),
          W(RequestLine(LOWER_GET, <<"/">>, HTTP10) \o CRLF, 0, <<>>),
          W(RequestLine(LONG_METHOD, <<"/">>, HTTP10) \o CRLF, 0, <<>>),
          W(HEAD \o SP \o <<"/">>, FORK_PATH_CAP, SP \o HTTP10 \o CRLFCRLF),
          W(RequestLine(GET, <<"/">>, HTTP10) \o <<NUL>> \o CRLFCRLF, 0, <<>>),
          Burst(W(<<>>, FloodLen, <<>>))}

\* the bytes each client sends
WireBytes == [w \in Wires |-> SubSeq(Stream(w), 1, Len(Stream(w)))]

Bytes(w) == WireBytes[w]

(***************************************************************************)
(* Pure functions of the handler.                                          *)
(***************************************************************************)
\* const char *get_mime_type(const char *filename)
get_mime_type(filename) ==
    IF Strstr(filename, HTML) THEN "text/html"
    ELSE IF Strstr(filename, HTM) THEN "text/html"
    ELSE IF Strstr(filename, TXT) THEN "text/plain"
    ELSE IF Strstr(filename, JPG) THEN "image/jpeg"
    ELSE IF Strstr(filename, JPEG) THEN "image/jpeg"
    ELSE IF Strstr(filename, PNG) THEN "image/png"
    ELSE IF Strstr(filename, CSS) THEN "text/css"
    ELSE IF Strstr(filename, JS) THEN "application/javascript"
    ELSE IF Strstr(filename, JSON) THEN "application/json"
    ELSE IF Strstr(filename, PDF) THEN "application/pdf"
    ELSE "application/octet-stream"

\* the Content-Type the variant puts in the 200 header
ContentType(v, filename) == IF v = "thread" THEN get_mime_type(filename) ELSE "text/html"

\* ftell after fseek(SEEK_END): the size of the file (files here are far
\* below 2^31 bytes, the int content_size holds the long unchanged)
Ftell(name) == Len(FileData(name))

\* a terminator check that is satisfied by the end of the first line
HasTerminatorLoose(buf) == Strstr(CStr(buf), CRLF)

\* strstr(recv_buffer, "\r\n\r\n") != NULL
HasTerminator(buf) == Strstr(CStr(buf), CRLFCRLF)

\* the field widths of the variant's sscanf format, -1 for a bare %s
ScanWidths(v) == IF v = "thread" THEN <<METHOD_CAP - 1, THREAD_PATH_CAP - 1, VERSION_CAP - 1>>
                 ELSE <<-1, -1, -1>>

\* the request line as sscanf converts it
ParseLine(v, buf) == Sscanf(CStr(buf), ScanWidths(v)[1], ScanWidths(v)[2], ScanWidths(v)[3])

\* capacity of the variant's file_path array
PATH_CAP(v) == IF v = "thread" THEN THREAD_PATH_CAP ELSE FORK_PATH_CAP

\* sscanf stored a token and its NUL past the end of its array
Overflows(v, p) ==
    \/ Len(p.method) + 1 > METHOD_CAP
    \/ Len(p.path) + 1 > PATH_CAP(v)
    \/ Len(p.version) + 1 > VERSION_CAP

\* values a token array may hold after a neighbouring array was overrun
StackTokens == {GET, HEAD, POST, HTTP10, <<"/">> \o A_TXT}

\* the contents of the three token arrays after sscanf: what was converted,
\* or, after an out-of-bounds store, any of the values the stack may hold
ParseOutcomes(v, buf) ==
    UNION {IF Overflows(v, p)
           THEN {[n |-> p.n, method |-> m, path |-> t, version |-> w] :
                    m \in StackTokens \cup {p.method},
                    t \in StackTokens \cup {p.path},
                    w \in StackTokens \cup {p.version}}
           ELSE {p} : p \in {ParseLine(v, buf)}}

\* where the handler ends: an overrun stack may abort the process at the return
Return(sm) == IF sm THEN {"done", "crashed"} ELSE {"done"}

SupportedMethod(m) == m = GET \/ m = HEAD

\* a version check that lets every version pass
AnyVersion(w) == TRUE

SupportedVersion(w) == w = HTTP11 \/ w = HTTP10

\* serverfork: HTTP/1.1 without "\r\nHost:" or "\nHost:" anywhere in the buffer
HostMissing(v, w, buf) ==
    /\ v = "fork"
    /\ w = HTTP11
    /\ ~Strstr(CStr(buf), CRLF_HOST)
    /\ ~Strstr(CStr(buf), LF_HOST)

\* number of '/' in path
SlashCount(path) == Cardinality({i \in 1..Len(path) : path[i] = "/"})

\* serverthread: slash_count > MAX_PATH_DEPTH || strstr(file_path, "..")
PathForbidden(v, path) ==
    /\ v = "thread"
    /\ (SlashCount(path) > MAX_PATH_DEPTH \/ Strstr(path, DOTDOT))

\* the default resource is never substituted for an empty name
ResolvePathNoDefault(path) ==
    IF path # <<>> /\ path[1] = "/" THEN Tail(path) ELSE path

\* strip one leading '/', an empty name becomes index.html
ResolvePath(path) ==
    LET s == IF path # <<>> /\ path[1] = "/" THEN Tail(path) ELSE path
    IN  IF s = <<>> THEN INDEX_HTML ELSE s

\* both variants answering a buffer without terminator with the 400 text
AlwaysIncomplete(v) == incomplete

\* what the handler does when the buffer holds no terminator
NoTerminatorResponse(v) == IF v = "thread" THEN no_response ELSE incomplete

ok == [status |-> 200, text |-> "HTTP/1.1 200 OK"]

\* the checks with the version checked before the method
VerdictVersionFirst(v, buf, p) ==
    IF p.n # 3 THEN badline
    ELSE IF ~SupportedVersion(p.version) THEN bad_version
    ELSE IF ~SupportedMethod(p.method) THEN bad_method
    ELSE IF HostMissing(v, p.version, buf) THEN missing_host
    ELSE IF PathForbidden(v, p.path) THEN bad_path
    ELSE ok

\* the first check that fails on the parsed request p, ok if none does
Verdict(v, buf, p) ==
    IF p.n # 3 THEN badline
    ELSE IF ~SupportedMethod(p.method) THEN bad_method
    ELSE IF ~SupportedVersion(p.version) THEN bad_version
    ELSE IF HostMissing(v, p.version, buf) THEN missing_host
    ELSE IF PathForbidden(v, p.path) THEN bad_path
    ELSE ok

\* fopen(name, ...) != NULL
Fopen(name) == name \in FileNames

\* a body branch taken for HEAD as well
SendsBodyForHead(m) == m = GET \/ m = HEAD

\* the branch that sends the body
SendsBody(m) == m = GET

\* the body send is repeated while bytes remain (serverthread only)
BodyLoops(v, sent, size) == v = "thread" /\ sent < size

(***************************************************************************)
(* Calls on the socket and on the file, in program order.                  *)
(***************************************************************************)
Ev(op) == [op |-> op, res |-> 0, acc |-> "na", status |-> 0, text |-> "",
           clen |-> -1, ctype |-> "", data |-> <<>>, name |-> <<>>]
EvSend(r, acc) == [Ev("send") EXCEPT !.status = r.status, !.text = r.text, !.acc = acc]
EvHeader(size, type, acc) ==
    [Ev("send") EXCEPT !.status = 200, !.text = ok.text, !.clen = size,
                       !.ctype = type, !.acc = acc]
EvBody(offered, n) ==
    [Ev("send") EXCEPT !.res = n, !.data = SubSeq(offered, 1, n),
                       !.acc = IF n < 0 THEN "error"
                               ELSE IF n < Len(offered) THEN "partial" ELSE "full"]
EvFopen(name, opened) == [Ev("fopen") EXCEPT !.name = name, !.res = IF opened THEN 1 ELSE 0]
EvFclose == Ev("fclose")
EvClose == Ev("close")

\* how much of a status line or header a send may accept
SendAcc == {"full", "partial", "error"}

\* return values of send(fd, buf, len, 0)
SendResults(len) == {-1} \cup (1..len)

\* a recv that asks for the whole buffer whatever it already holds
RecvAskWholeBuffer(v, have) == MAX_BUFFER_SIZE(v)

\* the size recv is asked for
RecvAsk(v, have) == MAX_BUFFER_SIZE(v) - 1 - have

\* return values of recv(fd, buf, ask, 0) when the client has sent `have`
\* bytes of wire so far: an error or timeout, a close, or some bytes
RecvResults(ask, have) ==
    LET avail == Min(ask, Len(Bytes(wire)) - have)
    IN  {-1, 0} \cup (IF avail > 0 THEN {avail} ELSE {})
                \cup (IF wire.burst THEN {} ELSE 1..Min(MaxChunk, avail))

\* the first k bytes the client sent, as recv stored them
Received(k) == SubSeq(Bytes(wire), 1, k)

\* char recv_buffer[MAX_BUFFER_SIZE] as a sequence of the bytes received
recv_buffer == Received(total_received)

(***************************************************************************)
(* process_client_request, one connection.                                 *)
(***************************************************************************)
\* main before its first accept: no connection, no unit
ServerIdle ==
    /\ main_pc = "accept"
    /\ client_fd = 0
    /\ accepted = 0
    /\ descriptor = [c \in Conns |-> "unused"]
    /\ child_descriptor = [c \in Conns |-> "none"]
    /\ cell = [c \in Conns |-> [state |-> "none", value |-> 0]]
    /\ unit = [c \in Conns |-> "none"]
    /\ handles = [c \in Conns |-> 0]
    /\ stalled = [c \in Conns |-> FALSE]
    /\ closed_by = [c \in Conns |-> <<>>]
    /\ freed_by = [c \in Conns |-> <<>>]
    /\ child_server_fd = [c \in Conns |-> "none"]

Init ==
    /\ ServerIdle
    /\ variant \in {"fork", "thread"}
    /\ wire \in Wires
    /\ total_received = 0
    /\ attempts = 0
    /\ pc = "recv"
    /\ http_method = <<>>
    /\ file_path = <<>>
    /\ http_version = <<>>
    /\ requested_file = "NULL"
    /\ content_size = 0
    /\ response_content = "NULL"
    /\ read_size = 0
    /\ total_sent = 0
    /\ smashed = FALSE
    /\ bytes_received = 0
    /\ recv_ask = 0
    /\ recv_calls = 0
    /\ log = <<>>

\* serverthread: the loop condition is false, the read loop ends
ThreadRecvEnd ==
    /\ variant = "thread"
    /\ pc = "recv"
    /\ \/ /\ ~(total_received < MAX_BUFFER_SIZE(variant) - 1)
          /\ UNCHANGED attempts
       \/ /\ total_received < MAX_BUFFER_SIZE(variant) - 1
          /\ ~(attempts < MAX_RECV_ATTEMPTS)
          /\ attempts' = attempts + 1
    /\ pc' = "check"
    /\ UNCHANGED <<variant, wire, total_received, http_method, file_path,
                   http_version, requested_file, content_size, response_content,
                   read_size, total_sent, smashed, bytes_received, recv_ask,
                   recv_calls, log>>
    /\ UNCHANGED svars

\* serverthread: one iteration of the read loop
ThreadRecv ==
    /\ variant = "thread"
    /\ pc = "recv"
    /\ total_received < MAX_BUFFER_SIZE(variant) - 1
    /\ attempts < MAX_RECV_ATTEMPTS
    /\ attempts' = attempts + 1
    /\ recv_ask' = RecvAsk(variant, total_received)
    /\ recv_calls' = recv_calls + 1
    /\ \E n \in RecvResults(recv_ask', total_received) :
          /\ bytes_received' = n
          /\ IF n <= 0
             THEN /\ pc' = "check"
                  /\ UNCHANGED total_received
             ELSE /\ total_received' = total_received + n
                  /\ pc' = IF HasTerminator(Received(total_received')) THEN "check" ELSE "recv"
    /\ UNCHANGED <<variant, wire, http_method, file_path, http_version,
                   requested_file, content_size, response_content, read_size,
                   total_sent, smashed, log>>
    /\ UNCHANGED svars

\* serverfork: the single recv; nothing received closes the socket
ForkRecv ==
    /\ variant = "fork"
    /\ pc = "recv"
    /\ recv_ask' = RecvAsk(variant, 0)
    /\ recv_calls' = recv_calls + 1
    /\ \E n \in RecvResults(recv_ask', 0) :
          /\ bytes_received' = n
          /\ IF n <= 0
             THEN /\ log' = Append(log, EvClose)
                  /\ pc' = "done"
                  /\ UNCHANGED total_received
             ELSE /\ total_received' = n
                  /\ pc' = "check"
                  /\ UNCHANGED log
    /\ UNCHANGED <<variant, wire, attempts, http_method, file_path,
                   http_version, requested_file, content_size, response_content,
                   read_size, total_sent, smashed>>
    /\ UNCHANGED svars

\* the buffer holds no "\r\n\r\n"
NoTerminator ==
    /\ pc = "check"
    /\ ~HasTerminator(recv_buffer)
    /\ IF NoTerminatorResponse(variant) = no_response
       THEN log' = Append(log, EvClose)
       ELSE \E acc \in SendAcc :
               log' = log \o <<EvSend(NoTerminatorResponse(variant), acc), EvClose>>
    /\ pc' = "done"
    /\ UNCHANGED <<variant, wire, total_received, attempts, http_method,
                   file_path, http_version, requested_file, content_size,
                   response_content, read_size, total_sent, smashed,
                   bytes_received, recv_ask, recv_calls>>
    /\ UNCHANGED svars

\* sscanf stores the three tokens; fewer than three conversions: 400
ParseRequest ==
    /\ pc = "check"
    /\ HasTerminator(recv_buffer)
    /\ smashed' = Overflows(variant, ParseLine(variant, recv_buffer))
    /\ \E p \in ParseOutcomes(variant, recv_buffer) :
          /\ http_method' = p.method
          /\ file_path' = p.path
          /\ http_version' = p.version
          /\ IF p.n # 3
             THEN /\ \E acc \in SendAcc :
                        log' = log \o <<EvSend(Verdict(variant, recv_buffer, p), acc), EvClose>>
                  /\ pc' \in Return(smashed')
             ELSE /\ pc' = "validate"
                  /\ UNCHANGED log
    /\ UNCHANGED <<variant, wire, total_received, attempts, requested_file,
                   content_size, response_content, read_size, total_sent,
                   bytes_received, recv_ask, recv_calls>>
    /\ UNCHANGED svars

\* the three tokens as the handler holds them after a complete conversion
Parsed == [n |-> 3, method |-> http_method, path |-> file_path, version |-> http_version]

\* a check on the method, the version, the Host header or the path fails:
\* its response is sent and the socket closed
Reject ==
    /\ pc = "validate"
    /\ Verdict(variant, recv_buffer, Parsed) # ok
    /\ \E acc \in SendAcc :
          log' = log \o <<EvSend(Verdict(variant, recv_buffer, Parsed), acc), EvClose>>
    /\ pc' \in Return(smashed)
    /\ UNCHANGED <<variant, wire, total_received, attempts, http_method,
                   file_path, http_version, requested_file, content_size,
                   response_content, read_size, total_sent, smashed,
                   bytes_received, recv_ask, recv_calls>>
    /\ UNCHANGED svars

\* every check passes and fopen fails: 404
NotFound ==
    /\ pc = "validate"
    /\ Verdict(variant, recv_buffer, Parsed) = ok
    /\ file_path' = ResolvePath(file_path)
    /\ ~Fopen(file_path')
    /\ \E acc \in SendAcc :
          log' = log \o <<EvFopen(file_path', FALSE),
                          EvSend(not_found(variant), acc), EvClose>>
    /\ pc' \in Return(smashed)
    /\ UNCHANGED <<variant, wire, total_received, attempts, http_method,
                   http_version, requested_file, content_size, response_content,
                   read_size, total_sent, smashed, bytes_received, recv_ask,
                   recv_calls>>
    /\ UNCHANGED svars

\* every check passes and the file opens: the 200 header is sent
SendHeader ==
    /\ pc = "validate"
    /\ Verdict(variant, recv_buffer, Parsed) = ok
    /\ file_path' = ResolvePath(file_path)
    /\ Fopen(file_path')
    /\ requested_file' = "open"
    /\ content_size' = Ftell(file_path')
    /\ \E acc \in SendAcc :
          log' = log \o <<EvFopen(file_path', TRUE),
                          EvHeader(content_size', ContentType(variant, file_path'), acc)>>
    /\ pc' = IF SendsBody(http_method) THEN "body" ELSE "cleanup"
    /\ UNCHANGED <<variant, wire, total_received, attempts, http_method,
                   http_version, response_content, read_size, total_sent,
                   smashed, bytes_received, recv_ask, recv_calls>>
    /\ UNCHANGED svars

\* GET: malloc(content_size) and fread, or the 500 text when malloc fails
ReadBody ==
    /\ pc = "body"
    /\ \E allocated \in BOOLEAN :
          IF allocated
          THEN /\ read_size' = Min(content_size, Len(FileData(file_path)))
               /\ response_content' = IF read_size' > 0 THEN "allocated" ELSE "freed"
               /\ pc' = IF read_size' > 0 THEN "send" ELSE "cleanup"
               /\ UNCHANGED log
          ELSE /\ \E acc \in SendAcc : log' = Append(log, EvSend(internal_error, acc))
               /\ pc' = "cleanup"
               /\ UNCHANGED <<read_size, response_content>>
    /\ UNCHANGED <<variant, wire, total_received, attempts, http_method,
                   file_path, http_version, requested_file, content_size,
                   total_sent, smashed, bytes_received, recv_ask, recv_calls>>
    /\ UNCHANGED svars

\* one send of the body bytes not yet sent
SendBody ==
    /\ pc = "send"
    /\ \E n \in SendResults(read_size - total_sent) :
          /\ log' = Append(log, EvBody(SubSeq(FileData(file_path), total_sent + 1, read_size), n))
          /\ IF n > 0 /\ BodyLoops(variant, total_sent + n, read_size)
             THEN /\ total_sent' = total_sent + n
                  /\ pc' = "send"
                  /\ UNCHANGED response_content
             ELSE /\ total_sent' = IF n > 0 /\ variant = "thread" THEN total_sent + n
                                   ELSE total_sent
                  /\ response_content' = "freed"
                  /\ pc' = "cleanup"
    /\ UNCHANGED <<variant, wire, total_received, attempts, http_method,
                   file_path, http_version, requested_file, content_size,
                   read_size, smashed, bytes_received, recv_ask, recv_calls>>
    /\ UNCHANGED svars

\* a cleanup that returns without fclose
CleanupNoFclose ==
    /\ pc = "cleanup"
    /\ log' = Append(log, EvClose)
    /\ pc' \in Return(smashed)
    /\ UNCHANGED <<variant, wire, total_received, attempts, http_method,
                   file_path, http_version, requested_file, content_size,
                   response_content, read_size, total_sent, smashed,
                   bytes_received, recv_ask, recv_calls>>
    /\ UNCHANGED svars

\* fclose(requested_file); close(client_fd); return
Cleanup ==
    /\ pc = "cleanup"
    /\ requested_file' = "closed"
    /\ log' = log \o <<EvFclose, EvClose>>
    /\ pc' \in Return(smashed)
    /\ UNCHANGED <<variant, wire, total_received, attempts, http_method,
                   file_path, http_version, content_size, response_content,
                   read_size, total_sent, smashed, bytes_received, recv_ask,
                   recv_calls>>
    /\ UNCHANGED svars

Next ==
    \/ ThreadRecvEnd
    \/ ThreadRecv
    \/ ForkRecv
    \/ NoTerminator
    \/ ParseRequest
    \/ Reject
    \/ NotFound
    \/ SendHeader
    \/ ReadBody
    \/ SendBody
    \/ Cleanup

Spec == Init /\ [][Next]_vars

(***************************************************************************)
(* What a connection has seen so far.                                      *)
(***************************************************************************)
\* the handler has returned, or the process was aborted at its return
Finished == pc \in {"done", "crashed"}

\* the sends that put a status line on the stream
StatusLines == {i \in DOMAIN log : log[i].op = "send" /\ log[i].status # 0 /\ log[i].acc # "error"}

\* a send of the status line code was made
Responded(code) == \E i \in DOMAIN log : log[i].op = "send" /\ log[i].status = code

\* number of calls of op
Calls(op) == Cardinality({i \in DOMAIN log : log[i].op = op})

RECURSIVE BodyBytes(_)
\* the body bytes the stream accepted, in order
BodyBytes(l) ==
    IF l = <<>> THEN <<>>
    ELSE (IF Head(l).op = "send" /\ Head(l).status = 0 THEN Head(l).data ELSE <<>>)
         \o BodyBytes(Tail(l))

\* the request line as a parser without field widths splits it
RequestTokens == Sscanf(CStr(recv_buffer), -1, -1, -1)

\* the header block: the bytes up to and including the first "\r\n\r\n"
HeaderBlock ==
    LET s == CStr(recv_buffer)
        at(i) == \A j \in 1..4 : s[i + j - 1] = CRLFCRLF[j]
        first == CHOOSE i \in 1..(Len(s) - 3) : at(i) /\ \A k \in 1..(i - 1) : ~at(k)
    IN  SubSeq(s, 1, first + 3)

\* the target of the request asks for a parent directory or is too deep
BadTarget(t) == Strstr(t, DOTDOT) \/ SlashCount(t) > 2

(***************************************************************************)
(* C1: in both variants a complete request with a supported method and     *)
(* version (and, under HTTP/1.1, a Host line) whose target contains ".."   *)
(* or more than two '/' is answered with 403 and fopen is never called.    *)
(***************************************************************************)
C1_ForbiddenTargetNeverOpened ==
    (/\ Finished
     /\ ~smashed
     /\ HasTerminator(recv_buffer)
     /\ RequestTokens.n = 3
     /\ SupportedMethod(RequestTokens.method)
     /\ SupportedVersion(RequestTokens.version)
     /\ (RequestTokens.version = HTTP10 \/ Strstr(HeaderBlock, CRLF_HOST))
     /\ BadTarget(RequestTokens.path))
    => (Responded(403) /\ Calls("fopen") = 0)

(***************************************************************************)
(* C2: in both variants, for a GET that passes validation and whose file   *)
(* opens, the Content-Length of the 200 header equals the number of body   *)
(* bytes written afterwards and those bytes are the file's contents, for   *)
(* every pattern of partial writes in which no write returns an error.     *)
(***************************************************************************)
C2_ContentLengthIsBodyLength ==
    (/\ Finished
     /\ ~smashed
     /\ http_method = GET
     /\ Responded(200)
     /\ ~Responded(500)
     /\ \A i \in DOMAIN log : log[i].op = "send" => log[i].acc # "error")
    => \E i \in DOMAIN log :
          /\ log[i].status = 200
          /\ log[i].clen = Len(BodyBytes(log))
          /\ BodyBytes(log) = FileData(file_path)

(***************************************************************************)
(* C3: in both variants a complete HTTP/1.1 request with a supported       *)
(* method whose header block has no line beginning "Host:" gets a 400,     *)
(* and the same request sent as HTTP/1.0 is not rejected for the missing   *)
(* Host header.                                                            *)
(***************************************************************************)
C3_HostRequiredFor11 ==
    (/\ Finished
     /\ ~smashed
     /\ HasTerminator(recv_buffer)
     /\ RequestTokens.n = 3
     /\ SupportedMethod(RequestTokens.method)
     /\ ~Strstr(HeaderBlock, CRLF_HOST))
    => /\ RequestTokens.version = HTTP11 => Responded(400)
       /\ RequestTokens.version = HTTP10 =>
             \A i \in DOMAIN log : log[i].text # missing_host.text

(***************************************************************************)
(* C4: in both variants, for a HEAD request that passes validation and     *)
(* whose file opens, the 200 header carries the size of the file as        *)
(* Content-Length and nothing is written to the stream after the header,   *)
(* whatever the size of the file.                                          *)
(***************************************************************************)
C4_HeadHasLengthAndNoBody ==
    \A i \in DOMAIN log :
        (log[i].op = "send" /\ log[i].status = 200 /\ http_method = HEAD)
        => /\ log[i - 1].op = "fopen"
           /\ log[i].clen = Len(FileData(log[i - 1].name))
           /\ \A j \in (i + 1)..Len(log) : log[j].op # "send"
           /\ pc \in {"cleanup", "done", "crashed"}

C4_Witness ==
    /\ pc = "done"
    /\ http_method = HEAD
    /\ \E i \in DOMAIN log : log[i].status = 200 /\ log[i].clen = MaxFileLen
    /\ Calls("close") = 1

(***************************************************************************)
(* C5 as stated: in both variants every complete request whose method      *)
(* token is not exactly GET or HEAD gets the 405 response naming GET and   *)
(* HEAD, and the socket is closed without fopen being called.              *)
(***************************************************************************)
C5_Original ==
    (/\ Finished
     /\ ~smashed
     /\ HasTerminator(recv_buffer)
     /\ RequestTokens.n >= 1
     /\ ~SupportedMethod(RequestTokens.method))
    => (Responded(405) /\ Calls("fopen") = 0)

(***************************************************************************)
(* C5 amended: in both variants every complete request from which the      *)
(* parser converts three tokens and whose stored method is not exactly     *)
(* GET or HEAD gets the 405 response naming GET and HEAD and nothing       *)
(* else, and the socket is closed without fopen being called.              *)
(***************************************************************************)
C5_UnsupportedMethodIs405 ==
    (/\ Finished
     /\ HasTerminator(recv_buffer)
     /\ ParseLine(variant, recv_buffer).n = 3
     /\ ~SupportedMethod(http_method))
    => /\ Len(log) = 2
       /\ log[1].op = "send"
       /\ log[1].text = "HTTP/1.1 405 Method Not Allowed\r\n\r\nSupported methods: GET, HEAD.\r\n"
       /\ log[2].op = "close"

C5_Witness ==
    /\ pc = "done"
    /\ http_method = POST
    /\ http_version = HTTP20
    /\ Responded(405)
    /\ Calls("close") = 1

(***************************************************************************)
(* C6: in both variants, as long as the bytes received do not contain      *)
(* "\r\n\r\n" (cap reached, attempts exhausted, peer closed, read error),  *)
(* no "200 OK" status line is written and no file is opened.               *)
(***************************************************************************)
C6_NoTerminatorNo200 ==
    ~Strstr(recv_buffer, CRLFCRLF)
    => (~Responded(200) /\ Calls("fopen") = 0 /\ requested_file = "NULL")

C6_Witness ==
    /\ pc = "done"
    /\ total_received = MAX_BUFFER_SIZE(variant) - 1
    /\ bytes_received > 0
    /\ ~Strstr(recv_buffer, CRLFCRLF)
    /\ Calls("close") = 1

(***************************************************************************)
(* C7: in both variants at most one status line is written on a            *)
(* connection: after the "200 OK" header no further status line follows,   *)
(* also when malloc for the body fails.                                    *)
(***************************************************************************)
C7_OneStatusLine == Cardinality(StatusLines) <= 1

(***************************************************************************)
(* C8: in both variants, on every path through the handler the socket is   *)
(* closed exactly once before the handler returns, nothing is sent after   *)
(* the close, and a file that was opened is closed exactly once.           *)
(***************************************************************************)
C8_ClosedExactlyOnce ==
    /\ Calls("close") <= 1
    /\ Calls("fclose") <= Cardinality({i \in DOMAIN log : log[i].op = "fopen" /\ log[i].res = 1})
    /\ \A i, j \in DOMAIN log : (i < j /\ log[i].op = "close") => log[j].op # "send"
    /\ pc = "done" =>
          /\ Calls("close") = 1
          /\ log[Len(log)].op = "close"
          /\ Calls("fclose") = Cardinality({i \in DOMAIN log : log[i].op = "fopen" /\ log[i].res = 1})
          /\ requested_file \in {"NULL", "closed"}

C8_Witness ==
    /\ pc = "done"
    /\ Calls("fclose") = 1
    /\ Calls("close") = 1
    /\ \E i \in DOMAIN log : log[i].op = "send" /\ log[i].status = 0 /\ log[i].res = -1

(***************************************************************************)
(* C9: in both variants, when the reader stops on an incomplete request    *)
(* (bytes received, last read positive, no "\r\n\r\n", cap reached or      *)
(* attempts exhausted) a 400 response is sent before the socket is closed. *)
(***************************************************************************)
C9_Incomplete400 ==
    (/\ pc = "done"
     /\ bytes_received > 0
     /\ ~Strstr(recv_buffer, CRLFCRLF))
    => \E i \in DOMAIN log :
          /\ log[i].op = "send"
          /\ log[i].status = 400
          /\ \A j \in 1..i : log[j].op # "close"

(***************************************************************************)
(* C10: in both variants nothing is sent while the request is being read,  *)
(* and when a read returns zero or an error before "\r\n\r\n" was          *)
(* received, on the first read or after some bytes were buffered, the      *)
(* handler closes the socket without having sent a byte.                   *)
(***************************************************************************)
C10_ReaderSilent ==
    /\ pc = "recv" => log = <<>>
    /\ (pc # "recv" /\ bytes_received <= 0 /\ ~Strstr(recv_buffer, CRLFCRLF))
       => /\ Calls("send") = 0
          /\ pc = "done" => log = <<EvClose>>

C10_Witness ==
    /\ pc = "done"
    /\ bytes_received <= 0
    /\ total_received > 0
    /\ ~Strstr(recv_buffer, CRLFCRLF)
    /\ log = <<EvClose>>

\* a is an initial segment of b
IsPrefix(a, b) == Len(a) <= Len(b) /\ a = SubSeq(b, 1, Len(a))

\* the two targets that name the default resource
RootTargets == {<<"/">>, <<"/">> \o INDEX_HTML}

(***************************************************************************)
(* C11: in both variants a request whose target is "/" and one whose       *)
(* target is "/index.html", with the same method, version and headers, get *)
(* the same response when index.html exists: from either stored target the *)
(* handler either sends the rejection that the target "/" gets, or opens   *)
(* index.html and sends the 200 header with the length and type of         *)
(* index.html; the body bytes sent afterwards are bytes of index.html.     *)
(***************************************************************************)
C11_RootIsIndexHtml ==
    /\ [][(pc = "validate" /\ file_path \in RootTargets)
          => LET root == Verdict(variant, recv_buffer, [Parsed EXCEPT !.path = <<"/">>])
             IN  \/ /\ root # ok
                    /\ \E acc \in SendAcc : log' = log \o <<EvSend(root, acc), EvClose>>
                 \/ /\ root = ok
                    /\ file_path' = INDEX_HTML
                    /\ content_size' = Len(FileData(INDEX_HTML))
                    /\ \E acc \in SendAcc :
                          log' = log \o <<EvFopen(INDEX_HTML, TRUE),
                                          EvHeader(Len(FileData(INDEX_HTML)), "text/html", acc)>>]_vars
    /\ []((file_path = INDEX_HTML /\ requested_file # "NULL")
           => IsPrefix(BodyBytes(log), FileData(INDEX_HTML)))

C11_Witness ==
    /\ pc = "done"
    /\ RequestTokens.path = <<"/">>
    /\ http_method = GET
    /\ file_path = INDEX_HTML
    /\ BodyBytes(log) = FileData(INDEX_HTML)

\* the bytes of the request before its first CRLF
FirstLine(buf) ==
    LET s == CStr(buf)
        ends == {i \in 1..Len(s) - 1 : s[i] = "\r" /\ s[i + 1] = "\n"}
    IN  IF ends = {} THEN s
        ELSE SubSeq(s, 1, (CHOOSE i \in ends : \A j \in ends : i <= j) - 1)

\* number of whitespace-separated tokens of s
TokenCount(s) ==
    Cardinality({i \in 1..Len(s) : ~IsSpace(s[i]) /\ (i = 1 \/ IsSpace(s[i - 1]))})

(***************************************************************************)
(* C12: in both variants a complete request whose first line does not      *)
(* consist of exactly three whitespace-separated tokens is answered with   *)
(* 400 "Malformed request line.", whether the line has fewer tokens (even  *)
(* when later lines hold more) or more than three.                         *)
(***************************************************************************)
C12_FirstLineThreeTokens ==
    (/\ Finished
     /\ ~smashed
     /\ HasTerminator(recv_buffer)
     /\ TokenCount(FirstLine(recv_buffer)) # 3)
    => /\ \E i \in DOMAIN log : log[i].op = "send" /\ log[i].text = badline.text
       /\ \A i \in DOMAIN log : log[i].op = "send" => log[i].text = badline.text

\* the extension of a file name: its bytes from the last '.' on
Extension(name) ==
    LET dots == {i \in 1..Len(name) : name[i] = "."}
    IN  IF dots = {} THEN <<>>
        ELSE SubSeq(name, CHOOSE i \in dots : \A j \in dots : j <= i, Len(name))

\* the type the extension table assigns to an extension
TableType(ext) ==
    IF ext \in {HTML, HTM} THEN "text/html"
    ELSE IF ext = TXT THEN "text/plain"
    ELSE IF ext \in {JPG, JPEG} THEN "image/jpeg"
    ELSE IF ext = PNG THEN "image/png"
    ELSE IF ext = CSS THEN "text/css"
    ELSE IF ext = JS THEN "application/javascript"
    ELSE IF ext = JSON THEN "application/json"
    ELSE IF ext = PDF THEN "application/pdf"
    ELSE "application/octet-stream"

(***************************************************************************)
(* C13: the Content-Type of every 200 response is the type the extension   *)
(* table assigns to the extension of the resolved file name, a longer      *)
(* entry never being shadowed by a shorter one (.json is                   *)
(* application/json, not the type of .js).                                 *)
(***************************************************************************)
C13_ContentTypeByExtension ==
    \A i \in DOMAIN log :
        (log[i].op = "send" /\ log[i].status = 200)
        => log[i].ctype = TableType(Extension(file_path))

\* the calls a rejection with response r makes
Rejection(r) == {<<EvSend(r, acc), EvClose>> : acc \in SendAcc}

(***************************************************************************)
(* C14: in both variants the response to a complete request is decided by  *)
(* the first failing check in a fixed order and exactly the response of    *)
(* that check is written: malformed request line (400), then unsupported   *)
(* method (405), then unsupported version (505), then the Host and path    *)
(* checks of the variant (400, 403), then the failure to open the file     *)
(* (404); the 200 header is written only when every check passed and the   *)
(* file opened.                                                            *)
(***************************************************************************)
C14_FirstFailingCheck ==
    /\ [][(pc = "check" /\ HasTerminator(recv_buffer))
          => IF ParseLine(variant, recv_buffer).n # 3
             THEN \E calls \in Rejection(badline) : log' = log \o calls
             ELSE log' = log /\ pc' = "validate"]_vars
    /\ [][pc = "validate"
          => \E calls \in
                (IF http_method \notin {GET, HEAD} THEN Rejection(bad_method)
                 ELSE IF http_version \notin {HTTP11, HTTP10} THEN Rejection(bad_version)
                 ELSE IF HostMissing(variant, http_version, recv_buffer)
                      THEN Rejection(missing_host)
                 ELSE IF PathForbidden(variant, file_path) THEN Rejection(bad_path)
                 ELSE IF ~Fopen(ResolvePath(file_path))
                      THEN {<<EvFopen(ResolvePath(file_path), FALSE)>> \o r :
                               r \in Rejection(not_found(variant))}
                 ELSE {<<EvFopen(ResolvePath(file_path), TRUE),
                         EvHeader(Ftell(ResolvePath(file_path)),
                                  ContentType(variant, ResolvePath(file_path)), acc)>> :
                          acc \in SendAcc}) :
                log' = log \o calls]_vars

\* an unsupported method with an unsupported version was answered 405, and
\* nothing else was sent
C14_Witness ==
    /\ pc = "done"
    /\ ~smashed
    /\ http_method = POST
    /\ http_version = HTTP20
    /\ \E acc \in SendAcc : log = <<EvSend(bad_method, acc), EvClose>>

\* the buffer after one recv that returns everything the client sent
SingleRead == Received(Min(Len(Bytes(wire)), RecvAsk(variant, 0)))

\* the status line the handler writes for the request in buf
StatusFor(buf) ==
    LET p == ParseLine(variant, buf)
        r == Verdict(variant, buf, p)
    IN  IF ~HasTerminator(buf) THEN NoTerminatorResponse(variant).status
        ELSE IF r # ok THEN r.status
        ELSE IF Fopen(ResolvePath(p.path)) THEN 200 ELSE 404

\* the status of the first response written on the connection, 0 if none
FirstStatus ==
    LET sends == {i \in DOMAIN log : log[i].op = "send"}
    IN  IF sends = {} THEN 0
        ELSE log[CHOOSE i \in sends : \A j \in sends : i <= j].status

(***************************************************************************)
(* C15: in both variants, when a request that contains "\r\n\r\n" and is   *)
(* shorter than the buffer arrives in several reads that all deliver       *)
(* bytes, within the budget of attempts, the reader reads until the        *)
(* terminator is in the buffer and the request gets the response it gets   *)
(* when it arrives in one read.                                            *)
(***************************************************************************)
C15_ChunkedAsSingleRead ==
    (/\ pc # "recv"
     /\ bytes_received > 0
     /\ attempts <= MAX_RECV_ATTEMPTS
     /\ HasTerminator(Bytes(wire))
     /\ Len(Bytes(wire)) < MAX_BUFFER_SIZE(variant))
    => /\ HasTerminator(recv_buffer)
       /\ (Finished /\ ~smashed) => FirstStatus = StatusFor(SingleRead)

(***************************************************************************)
(* C16: in both variants the response depends only on the bytes up to and  *)
(* including the first "\r\n\r\n": a request gets the response that its    *)
(* header block alone gets, whatever bytes were read after the terminator. *)
(***************************************************************************)
C16_OnlyHeaderBlockCounts ==
    (/\ Finished
     /\ ~smashed
     /\ HasTerminator(recv_buffer))
    => FirstStatus = StatusFor(HeaderBlock)

\* the bytes the buffer held before the last recv stored its bytes
HeldBeforeLastRecv == total_received - (IF bytes_received > 0 THEN bytes_received ELSE 0)

(***************************************************************************)
(* C17: in every state of the reader of both variants the buffer holds at  *)
(* most B-1 bytes (B = 8192 in serverthread, 1024 in serverfork), a recv   *)
(* asks for at most the capacity that remained, B-1 minus the bytes held,  *)
(* the terminating NUL is written at an index inside the buffer, and       *)
(* serverthread calls recv at most 100 times.                              *)
(***************************************************************************)
C17_ReaderBounds ==
    /\ total_received >= 0
    /\ total_received <= MAX_BUFFER_SIZE(variant) - 1
    /\ Len(recv_buffer) = total_received
    /\ recv_calls > 0 =>
          /\ recv_ask >= 1
          /\ recv_ask <= MAX_BUFFER_SIZE(variant) - 1 - HeldBeforeLastRecv
          /\ bytes_received <= recv_ask
    /\ total_received + 1 \in 1..MAX_BUFFER_SIZE(variant)
    /\ variant = "thread" => recv_calls <= MAX_RECV_ATTEMPTS
    /\ variant = "fork" => recv_calls <= 1

\* a client that keeps sending filled the buffer of serverthread to B-1
C17_Witness ==
    /\ variant = "thread"
    /\ pc = "done"
    /\ total_received = THREAD_MAX_BUFFER_SIZE - 1
    /\ recv_ask = THREAD_MAX_BUFFER_SIZE - 1

(***************************************************************************)
(* C18: in both variants the parser stores at most 9 characters for the    *)
(* method, 9 for the version and 255 (serverthread) or 99 (serverfork) for *)
(* the target, plus the terminating NUL, whatever the token lengths in the *)
(* request line: a longer token is truncated and nothing is stored past    *)
(* the end of a token buffer.                                              *)
(***************************************************************************)
C18_TokensFitTheirBuffers ==
    (/\ pc \notin {"recv", "check"}
     /\ HasTerminator(recv_buffer))
    => LET p == ParseLine(variant, recv_buffer)
       IN  /\ Len(p.method) + 1 <= METHOD_CAP
           /\ Len(p.path) + 1 <= PATH_CAP(variant)
           /\ Len(p.version) + 1 <= VERSION_CAP
           /\ ~smashed

\* the steps of the handler that happen without the client doing anything:
\* serverthread's recv returns after SO_RCVTIMEO at the latest, serverfork's
\* recv has no timeout and returns only once the client has sent or closed
Returns ==
    \/ ThreadRecvEnd
    \/ ThreadRecv
    \/ (ForkRecv /\ Bytes(wire) # <<>>)
    \/ NoTerminator
    \/ ParseRequest
    \/ Reject
    \/ NotFound
    \/ SendHeader
    \/ ReadBody
    \/ SendBody
    \/ Cleanup

\* the handler runs whenever it can: the thread or process is scheduled
FairSpec == Spec /\ WF_vars(Returns)

(***************************************************************************)
(* C19: in both variants every run of the handler eventually closes its    *)
(* connection and returns, whatever the client does, also when the client  *)
(* sends nothing or never sends a terminator.                              *)
(***************************************************************************)
C19_HandlerReturns == <>(Finished /\ Calls("close") = 1)

(***************************************************************************)
(* main: the accept loop of the two servers and the units it starts, one   *)
(* thread (serverthread) or one child process (serverfork) per accepted    *)
(* connection.  A unit runs process_client_request, of which this part     *)
(* keeps the steps that touch what main and the unit share: the argument   *)
(* cell, the descriptors, the blocking recv and the return.                *)
(***************************************************************************)
\* a listener that waits for the units it started before it accepts again
AwaitsAllUnits(phase) == phase \notin {"none", "exited"}

\* whether main waits for a unit in this phase before the next accept:
\* there is no pthread_join, wait or waitpid, and SIGCHLD is ignored
AwaitsUnit(phase) == FALSE

\* accept(server_fd, ...): a connection, from a client that sends its
\* request or from one that stays silent, or a failure
Accept ==
    /\ main_pc = "accept"
    /\ \A c \in Conns : ~AwaitsUnit(unit[c])
    /\ accepted < MaxConns
    /\ \/ /\ accepted' = accepted + 1
          /\ client_fd' = accepted'
          /\ descriptor' = [descriptor EXCEPT ![accepted'] = "open"]
          /\ \E silent \in BOOLEAN : stalled' = [stalled EXCEPT ![accepted'] = silent]
          /\ main_pc' = IF variant = "thread" THEN "malloc" ELSE "fork"
       \/ /\ main_pc' = "accept"
          /\ UNCHANGED <<accepted, client_fd, descriptor, stalled>>
    /\ UNCHANGED <<child_descriptor, cell, unit, handles, closed_by, freed_by,
                   child_server_fd>>
    /\ UNCHANGED hvars

\* close(fd) in the process of main, called by who
Close(fd, who) ==
    /\ descriptor' = [descriptor EXCEPT ![fd] = "closed"]
    /\ closed_by' = [closed_by EXCEPT ![fd] = Append(@, who)]

\* free of the argument cell of connection c, called by who
Free(c, who) ==
    /\ cell' = [cell EXCEPT ![c].state = "freed"]
    /\ freed_by' = [freed_by EXCEPT ![c] = Append(@, who)]

\* serverthread: client_fd_ptr = malloc(sizeof(int)); *client_fd_ptr = client_fd
Malloc ==
    /\ main_pc = "malloc"
    /\ \/ /\ cell' = [cell EXCEPT ![client_fd] = [state |-> "allocated", value |-> client_fd]]
          /\ main_pc' = "create"
          /\ UNCHANGED <<descriptor, closed_by>>
       \/ /\ Close(client_fd, "main")
          /\ main_pc' = "accept"
          /\ UNCHANGED cell
    /\ UNCHANGED <<client_fd, accepted, child_descriptor, unit, handles, stalled,
                   freed_by, child_server_fd>>
    /\ UNCHANGED hvars

\* serverthread: pthread_create(&tid, NULL, process_client_request, client_fd_ptr)
Create ==
    /\ main_pc = "create"
    /\ \/ /\ unit' = [unit EXCEPT ![client_fd] = "created"]
          /\ UNCHANGED <<cell, freed_by, descriptor, closed_by>>
       \/ /\ Free(client_fd, "main")
          /\ Close(client_fd, "main")
          /\ UNCHANGED unit
    /\ main_pc' = "accept"
    /\ UNCHANGED <<client_fd, accepted, child_descriptor, handles, stalled,
                   child_server_fd>>
    /\ UNCHANGED hvars

\* serverfork: pid = fork(); a child holds copies of both descriptors; when
\* fork fails main logs the error and goes on to the next accept
Fork ==
    /\ main_pc = "fork"
    /\ \/ /\ unit' = [unit EXCEPT ![client_fd] = "created"]
          /\ child_descriptor' = [child_descriptor EXCEPT ![client_fd] = "open"]
          /\ child_server_fd' = [child_server_fd EXCEPT ![client_fd] = "open"]
          /\ handles' = [handles EXCEPT ![client_fd] = client_fd]
          /\ main_pc' = "parent"
       \/ /\ main_pc' = "accept"
          /\ UNCHANGED <<unit, child_descriptor, child_server_fd, handles>>
    /\ UNCHANGED <<client_fd, accepted, descriptor, cell, stalled, closed_by, freed_by>>
    /\ UNCHANGED hvars

\* serverfork, pid > 0: close(client_fd)
ParentClose ==
    /\ main_pc = "parent"
    /\ Close(client_fd, "main")
    /\ main_pc' = "accept"
    /\ UNCHANGED <<client_fd, accepted, child_descriptor, cell, unit, handles, stalled,
                   freed_by, child_server_fd>>
    /\ UNCHANGED hvars

\* a thread that reads the descriptor from the variable of main
ArgValueOfMain(c) == client_fd

\* int client_fd = *(int *)arg, arg the cell main allocated for connection c
ArgValue(c) == cell[c].value

\* the unit starts: the thread reads and frees its argument cell, the child
\* closes server_fd; process_client_request then calls recv
UnitStart ==
    /\ \E c \in Conns :
          /\ unit[c] = "created"
          /\ unit' = [unit EXCEPT ![c] = "reading"]
          /\ IF variant = "thread"
             THEN /\ handles' = [handles EXCEPT ![c] = ArgValue(c)]
                  /\ Free(c, "unit")
                  /\ UNCHANGED child_server_fd
             ELSE /\ child_server_fd' = [child_server_fd EXCEPT ![c] = "closed"]
                  /\ UNCHANGED <<handles, cell, freed_by>>
    /\ UNCHANGED <<main_pc, client_fd, accepted, descriptor, child_descriptor, stalled,
                   closed_by>>
    /\ UNCHANGED hvars

\* recv returns in the unit: the client has sent, or, in serverthread only,
\* SO_RCVTIMEO has expired
UnitRecv ==
    /\ \E c \in Conns :
          /\ unit[c] = "reading"
          /\ variant = "fork" => ~stalled[c]
          /\ unit' = [unit EXCEPT ![c] = "responding"]
    /\ UNCHANGED <<main_pc, client_fd, accepted, descriptor, child_descriptor, cell,
                   handles, stalled, closed_by, freed_by, child_server_fd>>
    /\ UNCHANGED hvars

\* the unit writes its response, if any, and closes its descriptor
UnitRespond ==
    /\ \E c \in Conns :
          /\ unit[c] = "responding"
          /\ unit' = [unit EXCEPT ![c] = "closed"]
          /\ IF variant = "thread"
             THEN /\ Close(handles[c], "unit")
                  /\ UNCHANGED child_descriptor
             ELSE /\ child_descriptor' = [child_descriptor EXCEPT ![c] = "closed"]
                  /\ UNCHANGED <<descriptor, closed_by>>
    /\ UNCHANGED <<main_pc, client_fd, accepted, cell, handles, stalled, freed_by,
                   child_server_fd>>
    /\ UNCHANGED hvars

\* process_client_request returns: the thread ends, the child calls exit
UnitExit ==
    /\ \E c \in Conns :
          /\ unit[c] = "closed"
          /\ unit' = [unit EXCEPT ![c] = "exited"]
    /\ UNCHANGED <<main_pc, client_fd, accepted, descriptor, child_descriptor, cell,
                   handles, stalled, closed_by, freed_by, child_server_fd>>
    /\ UNCHANGED hvars

\* main before its first accept; the units' handlers are those of Spec
ServerInit ==
    /\ Init
    /\ wire = W(<<>>, 0, <<>>)

ServerNext ==
    \/ Accept
    \/ Malloc
    \/ Create
    \/ Fork
    \/ ParentClose
    \/ UnitStart
    \/ UnitRecv
    \/ UnitRespond
    \/ UnitExit

ServerSpec == ServerInit /\ [][ServerNext]_vars

\* the connection got everything its unit sends and the unit closed it
Served(c) == unit[c] \in {"closed", "exited"}

\* the unit of connection c is inside recv and its client sends nothing
BlockedReading(c) == unit[c] = "reading" /\ stalled[c]

(***************************************************************************)
(* C20: in both variants the accept loop never waits for a handler to      *)
(* finish: while the unit of a connection is blocked reading from a silent *)
(* client, main can still take its next step, accepting further            *)
(* connections and handing each to a new unit, and a later connection can  *)
(* be served and closed before the blocked one.                            *)
(***************************************************************************)
C20_AcceptNeverWaits ==
    (/\ \E c \in Conns : BlockedReading(c)
     /\ accepted < MaxConns)
    => ENABLED (Accept \/ Malloc \/ Create \/ Fork \/ ParentClose)

\* the first connection is still blocked in recv, a later one was accepted,
\* served and closed, and main is back at accept
C20_Witness ==
    /\ BlockedReading(1)
    /\ Served(2)
    /\ descriptor[2] = "closed"
    /\ main_pc = "accept"

\* the unit of connection c has read its argument
Started(c) == unit[c] \in {"reading", "responding", "closed", "exited"}

\* main has finished the iteration of the accept loop that accepted c
IterationOver(c) == c <= accepted /\ (c < accepted \/ main_pc = "accept")

(***************************************************************************)
(* C21: in serverthread, under every interleaving of main and the worker   *)
(* threads, each worker handles the descriptor of the connection it was    *)
(* created for, no descriptor is handled by two workers, an argument cell  *)
(* is read only while allocated and freed exactly once, and each accepted  *)
(* descriptor is closed exactly once: by its worker when the thread was    *)
(* created, by main when malloc or pthread_create failed.                  *)
(***************************************************************************)
C21_WorkerOwnsItsDescriptor ==
    variant = "thread" =>
       /\ \A c \in Conns : Started(c) => handles[c] = c
       /\ \A c, d \in Conns : (Started(c) /\ Started(d) /\ c # d) => handles[c] # handles[d]
       /\ \A c \in Conns :
             /\ unit[c] = "created" => (cell[c].state = "allocated" /\ cell[c].value = c)
             /\ Len(freed_by[c]) <= 1
             /\ Started(c) => freed_by[c] = <<"unit">>
             /\ Len(closed_by[c]) <= 1
             /\ unit[c] \in {"closed", "exited"} => closed_by[c] = <<"unit">>
             /\ unit[c] \in {"created", "reading", "responding"} =>
                   (closed_by[c] = <<>> /\ descriptor[c] = "open")
             /\ (IterationOver(c) /\ unit[c] = "none") =>
                   /\ closed_by[c] = <<"main">>
                   /\ cell[c].state \in {"none", "freed"}
                   /\ cell[c].state = "freed" <=> freed_by[c] = <<"main">>

\* main accepted the third connection while the worker of the first had not
\* yet read its argument; pthread_create failed for the second; the worker of
\* the third read its own cell, freed it, and closed its own descriptor
C21_Witness ==
    /\ variant = "thread"
    /\ unit[1] = "created"
    /\ closed_by[2] = <<"main">>
    /\ freed_by[2] = <<"main">>
    /\ unit[3] = "exited"
    /\ handles[3] = 3
    /\ freed_by[3] = <<"unit">>
    /\ closed_by[3] = <<"unit">>

(***************************************************************************)
(* C22: in serverfork, after every successful accept the parent closes its *)
(* copy of the connection descriptor whether fork created a child or       *)
(* failed, so that at the start of each iteration of the accept loop the   *)
(* parent holds no open connection descriptor of an earlier iteration; the *)
(* child has closed the listening descriptor before it handles the         *)
(* connection, and it exits after the handler returned.                    *)
(***************************************************************************)
C22_ParentClosesItsCopy ==
    variant = "fork" =>
       /\ main_pc = "accept" =>
             \A c \in 1..accepted :
                /\ descriptor[c] = "closed"
                /\ closed_by[c] = <<"main">>
       /\ \A c \in Conns :
             /\ Started(c) => child_server_fd[c] = "closed"
             /\ unit[c] = "exited" => child_descriptor[c] = "closed"

====
